---- MODULE Spec2Model ----
(***************************************************************************)
(* State-machine model of the ChatWindow component                         *)
(* (src/src/components/ChatWindow.tsx): the four pieces of React state,    *)
(* the event handlers, and the continuation of sendMessage after each of   *)
(* its two awaits (fetch, res.json).                                       *)
(*                                                                         *)
(* Strings are sequences of chunks; a chunk is either one whitespace       *)
(* character or a run of non-whitespace text.  JavaScript values that can  *)
(* reach a message's text are tagged records (t = the typeof tag).         *)
(* Rendering (the JSX tree) is outside the model except for the disabled   *)
(* and conditional-render conditions that gate the handlers.               *)
(***************************************************************************)
EXTENDS Integers, Sequences, FiniteSets, TLC

VARIABLES
  messages,     \* useState<ChatMessageType[]>      (line 12)
  loading,      \* useState<boolean>                (line 13)
  inputText,    \* useState<string>                 (line 14)
  pdfFile,      \* useState<File | null>            (line 15)
  pickerValue,  \* fileInputRef.current's selection (lines 17, 250-256)
  requests,     \* the POSTs issued by fetch, in order (lines 36-43)
  calls,        \* sendMessage invocations suspended at an await
  resets,       \* how many times the finally block ran setLoading(false)
  event         \* the event the last step processed

vars == <<messages, loading, inputText, pdfFile, pickerValue,
          requests, calls, resets, event>>

component == <<messages, loading, inputText, pdfFile, requests, calls>>

----------------------------------------------------------------------------
(* Bounds and input sets *)

MaxTurns == 2

Whitespace == {" ", "\n", "\t"}

InputTexts == { <<>>, <<" ", "\n">>, <<" ", "hello", " ">> }

Null == [kind |-> "null"]

PdfReport == [kind |-> "File", name |-> "report.pdf", type |-> "application/pdf"]
TextNotes == [kind |-> "File", name |-> "notes.txt", type |-> "text/plain"]

Files == {PdfReport, TextNotes}

----------------------------------------------------------------------------
(* JavaScript values *)

Undefined == [t |-> "undefined"]
JSNull    == [t |-> "null"]
Num(n)    == [t |-> "number", v |-> n]
Str(s)    == [t |-> "string", v |-> s]
Obj       == [t |-> "object"]

\* JavaScript truthiness, as used by || and ! (lines 26, 56, 71)
Truthy(x) ==
  CASE x.t = "undefined" -> FALSE
    [] x.t = "null"      -> FALSE
    [] x.t = "number"    -> x.v # 0
    [] x.t = "string"    -> x.v # <<>>
    [] OTHER             -> TRUE

RECURSIVE TrimStart(_)
TrimStart(s) ==
  IF s # <<>> /\ Head(s) \in Whitespace THEN TrimStart(Tail(s)) ELSE s

RECURSIVE TrimEnd(_)
TrimEnd(s) ==
  IF s # <<>> /\ s[Len(s)] \in Whitespace
  THEN TrimEnd(SubSeq(s, 1, Len(s) - 1))
  ELSE s

\* a trim that strips nothing
NoTrim(s) == s

\* String.prototype.trim
Trim(s) == TrimEnd(TrimStart(s))

\* The two literal bot texts (the leading warning glyph is written "(!)")
ErrorText    == <<"(!)", " ", "Error connecting to server.">>
FallbackText == <<"(!)", " ", "No response field in server reply.">>

ReplyText == <<"Take", " ", "two", " ", "tablets.">>

\* The values the reply field of a parsed JSON object can hold
ReplyValues == {Undefined, JSNull, Num(0), Num(42), Obj, Str(<<>>), Str(ReplyText)}

\* What res.json() can resolve to: JSON null, or an object with a reply field
Bodies == {[json |-> "null"]} \cup {[json |-> "object", response |-> r] : r \in ReplyValues}

----------------------------------------------------------------------------
(* sendMessage, lines 25-68 *)

\* pdfFile?.name (line 30)
PdfName(file) == IF file = Null THEN Undefined ELSE Str(<<file.name>>)

\* the FormData built at lines 36-38
FormData(userQuery, file) ==
  IF file # Null
  THEN [user_query |-> userQuery, pdf_file |-> file]
  ELSE [user_query |-> userQuery]

\* line 26: the early return is taken when this is FALSE
Accepts(userQuery, file) == Truthy(Str(Trim(userQuery))) \/ file # Null

\* sendMessage without setLoading(true)
sendMessageNoLoading(userQuery, file) ==
  IF ~Accepts(userQuery, file)
  THEN UNCHANGED <<messages, loading, requests, calls>>
  ELSE /\ messages' = Append(messages,
              [sender |-> "user", text |-> Str(userQuery), pdf |-> PdfName(file)])
       /\ loading' = loading
       /\ requests' = Append(requests, FormData(userQuery, file))
       /\ calls' = calls \cup {[turn |-> Len(requests) + 1, at |-> "fetch"]}

\* lines 25-43: the synchronous part of sendMessage, up to the await of fetch
sendMessage(userQuery, file) ==
  IF ~Accepts(userQuery, file)
  THEN UNCHANGED <<messages, loading, requests, calls>>
  ELSE /\ messages' = Append(messages,
              [sender |-> "user", text |-> Str(userQuery), pdf |-> PdfName(file)])
       /\ loading' = TRUE
       /\ requests' = Append(requests, FormData(userQuery, file))
       /\ calls' = calls \cup {[turn |-> Len(requests) + 1, at |-> "fetch"]}

\* the reply field used without the || fallback
BotTextNoFallback(data) == data.response

\* line 56: data.response || fallback
BotText(data) ==
  IF Truthy(data.response) THEN data.response ELSE Str(FallbackText)

\* a catch block that only logs
CatchSilent == UNCHANGED messages

\* lines 59-64: the catch block
Catch == messages' = Append(messages, [sender |-> "bot", text |-> Str(ErrorText)])

\* lines 65-67: the finally block
Finally == loading' = FALSE /\ resets' = resets + 1

\* line 40 resolves with res.ok (a 2xx status): sendMessage awaits res.json()
ResponseOk(c) ==
  /\ c \in calls /\ c.at = "fetch"
  /\ calls' = (calls \ {c}) \cup {[c EXCEPT !.at = "json"]}
  /\ event' = [op |-> "response", ok |-> TRUE]
  /\ UNCHANGED <<messages, loading, inputText, pdfFile, pickerValue, requests, resets>>

\* the !res.ok path with the reset of the flag left out
ResponseNotOkNoReset(c) ==
  /\ c \in calls /\ c.at = "fetch"
  /\ Catch
  /\ UNCHANGED <<loading, resets>>
  /\ calls' = calls \ {c}
  /\ event' = [op |-> "settle", how |-> "status"]
  /\ UNCHANGED <<inputText, pdfFile, pickerValue, requests>>

\* line 40 resolves with !res.ok: line 46 throws, then catch and finally
ResponseNotOk(c) ==
  /\ c \in calls /\ c.at = "fetch"
  /\ Catch
  /\ Finally
  /\ calls' = calls \ {c}
  /\ event' = [op |-> "settle", how |-> "status"]
  /\ UNCHANGED <<inputText, pdfFile, pickerValue, requests>>

\* a rejected fetch that issues the same request again
FetchRejectsRetry(c) ==
  /\ c \in calls /\ c.at = "fetch"
  /\ Catch
  /\ Finally
  /\ calls' = calls \ {c}
  /\ requests' = Append(requests, requests[c.turn])
  /\ event' = [op |-> "settle", how |-> "reject"]
  /\ UNCHANGED <<inputText, pdfFile, pickerValue>>

\* line 40 rejects (transport failure): catch and finally
FetchRejects(c) ==
  /\ c \in calls /\ c.at = "fetch"
  /\ Catch
  /\ Finally
  /\ calls' = calls \ {c}
  /\ event' = [op |-> "settle", how |-> "reject"]
  /\ UNCHANGED <<inputText, pdfFile, pickerValue, requests>>

\* line 49 rejects (the body is not JSON): catch and finally
JsonRejects(c) ==
  /\ c \in calls /\ c.at = "json"
  /\ Catch
  /\ Finally
  /\ calls' = calls \ {c}
  /\ event' = [op |-> "settle", how |-> "parse"]
  /\ UNCHANGED <<inputText, pdfFile, pickerValue, requests>>

\* line 49 resolves with data: lines 50-58, or the TypeError of reading
\* .response of null (caught at line 59), then finally
JsonResolves(c, data) ==
  /\ c \in calls /\ c.at = "json"
  /\ IF data.json = "null"
     THEN Catch
     ELSE messages' = Append(messages, [sender |-> "bot", text |-> BotText(data)])
  /\ Finally
  /\ calls' = calls \ {c}
  /\ event' = [op |-> "settle", how |-> "ok", data |-> data]
  /\ UNCHANGED <<inputText, pdfFile, pickerValue, requests>>

----------------------------------------------------------------------------
(* handleSend, handleKeyPress, handleFileSelect, lines 70-93 *)

\* handleSend without setPdfFile(null)
handleSendKeepsFile ==
  IF Truthy(Str(Trim(inputText))) \/ pdfFile # Null
  THEN /\ sendMessage(inputText, pdfFile)
       /\ inputText' = <<>>
       /\ pdfFile' = pdfFile
       /\ pickerValue' = Null
  ELSE UNCHANGED <<messages, loading, requests, calls, inputText, pdfFile, pickerValue>>

\* lines 70-79
handleSend ==
  IF Truthy(Str(Trim(inputText))) \/ pdfFile # Null
  THEN /\ sendMessage(inputText, pdfFile)
       /\ inputText' = <<>>
       /\ pdfFile' = Null
       /\ pickerValue' = Null
  ELSE UNCHANGED <<messages, loading, requests, calls, inputText, pdfFile, pickerValue>>

\* lines 81-86
handleKeyPress(key, shiftKey) ==
  IF key = "Enter" /\ ~shiftKey
  THEN handleSend
  ELSE UNCHANGED <<messages, loading, requests, calls, inputText, pdfFile, pickerValue>>

\* a test that accepts any selected file
IsAnyFile(file) == file # Null

\* line 90: the test on the selected file
IsPdf(file) == file # Null /\ file.type = "application/pdf"

\* lines 88-93, file = e.target.files?.[0] (Null when the selection is empty)
handleFileSelect(file) ==
  IF IsPdf(file) THEN pdfFile' = file ELSE pdfFile' = pdfFile

----------------------------------------------------------------------------
(* The controls of the input area, lines 198-257 *)

\* line 219
UploadDisabled == loading

\* a textarea that is never disabled
TextareaNeverDisabled == FALSE

\* line 232
TextareaDisabled == loading

\* line 241
SendDisabled == loading \/ (~Truthy(Str(Trim(inputText))) /\ pdfFile = Null)

Keys == {"Enter", "a"}

\* textarea onChange, line 229
TypeText(value) ==
  /\ ~TextareaDisabled
  /\ value # inputText
  /\ inputText' = value
  /\ event' = [op |-> "type"]
  /\ UNCHANGED <<messages, loading, pdfFile, pickerValue, requests, calls, resets>>

\* textarea onKeyDown, line 230
KeyDown(key, shiftKey) ==
  /\ ~TextareaDisabled
  /\ Len(requests) < MaxTurns
  /\ handleKeyPress(key, shiftKey)
  /\ event' = [op |-> "keydown", key |-> key, shiftKey |-> shiftKey]
  /\ UNCHANGED resets

\* send button onClick, line 240
ClickSend ==
  /\ ~SendDisabled
  /\ Len(requests) < MaxTurns
  /\ handleSend
  /\ event' = [op |-> "click"]
  /\ UNCHANGED resets

\* upload button (lines 217-223) opens the picker of the hidden input
\* (lines 250-256); onChange fires when the selection changes
FileSelect(file) ==
  /\ ~UploadDisabled
  /\ file # pickerValue
  /\ pickerValue' = file
  /\ handleFileSelect(file)
  /\ event' = [op |-> "select", file |-> file]
  /\ UNCHANGED <<messages, loading, inputText, requests, calls, resets>>

\* the x button of the staged-file indicator, lines 201-211
ClearStaged ==
  /\ pdfFile # Null
  /\ pdfFile' = Null
  /\ event' = [op |-> "clear"]
  /\ UNCHANGED <<messages, loading, inputText, pickerValue, requests, calls, resets>>

----------------------------------------------------------------------------

Init ==
  /\ messages = <<>>
  /\ loading = FALSE
  /\ inputText = <<>>
  /\ pdfFile = Null
  /\ pickerValue = Null
  /\ requests = <<>>
  /\ calls = {}
  /\ resets = 0
  /\ event = [op |-> "mount"]

Next ==
  \/ \E value \in InputTexts : TypeText(value)
  \/ \E key \in Keys, shiftKey \in BOOLEAN : KeyDown(key, shiftKey)
  \/ ClickSend
  \/ \E file \in Files \cup {Null} : FileSelect(file)
  \/ ClearStaged
  \/ \E c \in calls : ResponseOk(c)
  \/ \E c \in calls : ResponseNotOk(c)
  \/ \E c \in calls : FetchRejects(c)
  \/ \E c \in calls : JsonRejects(c)
  \/ \E c \in calls, data \in Bodies : JsonResolves(c, data)

Spec == Init /\ [][Next]_vars

\* every issued request ends and its continuation runs
Settles ==
  \/ \E c \in calls : ResponseOk(c) \/ ResponseNotOk(c) \/ FetchRejects(c)
  \/ \E c \in calls : JsonRejects(c)
  \/ \E c \in calls, data \in Bodies : JsonResolves(c, data)

LiveSpec == Init /\ [][Next]_vars /\ WF_vars(Settles)

----------------------------------------------------------------------------
(* Properties *)

LastMessage == messages[Len(messages)]

NumFrom(who) == Cardinality({i \in 1..Len(messages) : messages[i].sender = who})

\* empty or whitespace-only
Blank(s) == \A i \in 1..Len(s) : s[i] \in Whitespace

ErrorMessage == [sender |-> "bot", text |-> Str(ErrorText)]

\* the step was an Enter key press (without Shift) or a click on send
SendAttempt(e) ==
  \/ e.op = "click"
  \/ e.op = "keydown" /\ e.key = "Enter" /\ ~e.shiftKey

\* the last step settled a call whose body parsed to a JSON object
SettledWithObject ==
  event.op = "settle" /\ event.how = "ok" /\ event.data.json = "object"

C2_RejectedSendIsNoOp ==
  [][ (SendAttempt(event') /\ Blank(inputText) /\ pdfFile = Null)
        => UNCHANGED component ]_vars

C2_Witness ==
  /\ SendAttempt(event)
  /\ inputText = <<" ", "\n">> /\ pdfFile = Null
  /\ messages = <<>> /\ requests = <<>> /\ ~loading

C4_OneInFlight ==
  /\ Cardinality(calls) <= 1
  /\ loading <=> calls # {}

C4_Witness ==
  /\ loading
  /\ \E c \in calls : c.turn = 2 /\ c.at = "json"

C6_FailureIsTerminal ==
  [][ (event'.op = "settle" /\ event'.how \in {"status", "reject", "parse"})
        => /\ messages' = Append(messages, ErrorMessage)
           /\ LastMessage.sender = "user"
           /\ requests' = requests
           /\ ~loading' ]_vars

C6_Witness ==
  /\ event.op = "settle" /\ event.how = "status"
  /\ LastMessage = ErrorMessage
  /\ Len(messages) = 2 /\ Len(requests) = 1 /\ ~loading

\* C7: an accepted send leaves the text empty and no file staged, and no
\* step of the network call changes the text or the staged file.
C7_InputClearedBySend ==
  [][ /\ (SendAttempt(event') /\ (~Blank(inputText) \/ pdfFile # Null))
          => (inputText' = <<>> /\ pdfFile' = Null /\ Len(requests') = Len(requests) + 1)
      /\ (event'.op \in {"response", "settle"})
          => UNCHANGED <<inputText, pdfFile>> ]_vars

C7_Witness ==
  /\ event.op = "settle"
  /\ messages[1].text = Str(<<" ", "hello", " ">>) /\ messages[1].pdf = Str(<<"report.pdf">>)
  /\ inputText = <<>> /\ pdfFile = Null

\* C8: a selection is staged only if its media type is application/pdf; any
\* other selection leaves the staged file and the messages as they were.
C8_OnlyPdfIsStaged ==
  [][ event'.op = "select" =>
        IF event'.file # Null /\ event'.file.type = "application/pdf"
        THEN pdfFile' = event'.file
        ELSE UNCHANGED <<pdfFile, messages, loading, requests>> ]_vars

C8_Witness ==
  /\ event.op = "select" /\ event.file = TextNotes
  /\ pdfFile = PdfReport

\* C9: on success the bot text is the reply field when that field is a
\* string, and the fallback text for every other shape of the field.
C9_OnlyStringReplyIsDisplayed ==
  SettledWithObject =>
    LET r == event.data.response IN
      LastMessage.text = IF r.t = "string" THEN r ELSE Str(FallbackText)

\* C10: the message list only grows at its end, alternates user, bot, ...
\* from a user message, and has odd length exactly when the flag is true.
C10_Alternation ==
  /\ [](\A i \in 1..Len(messages) :
          messages[i].sender = IF i % 2 = 1 THEN "user" ELSE "bot")
  /\ [](loading <=> Len(messages) % 2 = 1)
  /\ [][ /\ Len(messages') >= Len(messages)
         /\ SubSeq(messages', 1, Len(messages)) = messages ]_vars

C10_Witness ==
  /\ Len(messages) = 3 /\ loading
  /\ messages[2].sender = "bot" /\ messages[3].sender = "user"
====
